---- MODULE Spec2Model ----
(***************************************************************************)
(* Model of the data preprocessing tool (src/app.py and                   *)
(* src/src/preprocessing/data_preprocessor.py): the organism normalizer,   *)
(* the two similarity groupers, the two appliers and the operator session. *)
(*                                                                         *)
(* Strings are sequences of atoms.  An atom is either one non-word         *)
(* character (" ", "-", "(", ")", ".", "&") or a whole alphabetic word     *)
(* ("complex", "Coli", ...); two adjacent word atoms form one longer word, *)
(* exactly as two adjacent letters do, so the regular expressions' \b, \s  *)
(* and literal words are decided atom by atom the way `re` decides them    *)
(* character by character.                                                 *)
(***************************************************************************)
EXTENDS Integers, Sequences, FiniteSets, TLC

VARIABLES
    pc,           \* the step the modelled run is at
    text,         \* clean_org_name's argument
    cleaned,      \* clean_org_name(text)
    recleaned,    \* clean_org_name(clean_org_name(text))
    choices,      \* the sorted unique keys handed to process.extract
    score,        \* score[q][c]: the scorer's result for query q and choice c
    mapping,      \* the mapping dictionary
    matches_dict, \* what the grouper gave
    selected_column, \* the column being processed
    data0,        \* the selected column of the uploaded table
    data1,        \* the standardized column
    mapping_file, \* the dictionary of the uploaded mapping file ({} without one)
    session_state, \* st.session_state: confirm_replacements, review_replacements, user_mappings
    selected_group, \* the batch selectbox
    replace,      \* the values of the "Select replacement:" selectboxes, by index
    other,        \* the values of the "Type in replacement.." text inputs, by index
    offered_keys, \* the keys the last run offered for a decision, in order
    applier_ran,  \* whether the last run applied the mapping and offered the downloads
    self_clean_name_cache \* the cache of cleaned names a step leaves (DataPreprocessor keeps it)

cleanVars == <<text, cleaned, recleaned>>
groupVars == <<choices, score, matches_dict>>
applyVars == <<selected_column, data0, data1>>
sessVars == <<mapping_file, session_state, selected_group, replace, other, offered_keys, applier_ran>>
cacheVars == <<self_clean_name_cache>>
vars == <<pc, text, cleaned, recleaned, choices, score, mapping, matches_dict,
          selected_column, data0, data1, mapping_file, session_state, selected_group,
          replace, other, offered_keys, applier_ran, self_clean_name_cache>>

---------------------------------------------------------------------------
(* Characters and words *)

\* Lower-case word atoms and their str.capitalize() forms.
CapOf ==
    ("a" :> "A") @@ ("complex" :> "Complex") @@ ("species" :> "Species") @@
    ("possible" :> "Possible") @@ ("suspected" :> "Suspected") @@
    ("e" :> "E") @@ ("coli" :> "Coli") @@ ("klebsiella" :> "Klebsiella") @@
    ("escherichia" :> "Escherichia")

LowerWords == DOMAIN CapOf
UpperWords == {CapOf[w] : w \in LowerWords}
WordAtoms == LowerWords \cup UpperWords
NonWordAtoms == {" ", "-", "(", ")", ".", "&"}

\* \s of the regular expressions, and the whitespace of strip() and split()
IsSpace(a) == a = " "
\* \w of the regular expressions
IsWord(a) == a \in WordAtoms

\* str.lower() of one atom
LowerAtom(a) == IF a \in UpperWords THEN CHOOSE w \in LowerWords : CapOf[w] = a ELSE a

\* str.lower()
Lower(s) == [i \in 1..Len(s) |-> LowerAtom(s[i])]

\* str.capitalize() of a token without whitespace: first character upper-cased,
\* the others lower-cased
Capitalize(w) ==
    [i \in 1..Len(w) |->
        IF i = 1 THEN (IF LowerAtom(w[1]) \in LowerWords THEN CapOf[LowerAtom(w[1])] ELSE w[1])
        ELSE LowerAtom(w[i])]

\* str.strip()
Strip(s) ==
    LET keep == {i \in 1..Len(s) : ~IsSpace(s[i])}
    IN  IF keep = {} THEN <<>>
        ELSE SubSeq(s, CHOOSE i \in keep : \A j \in keep : i <= j,
                       CHOOSE i \in keep : \A j \in keep : i >= j)

RECURSIVE SplitFrom(_, _, _, _)
SplitFrom(s, i, cur, acc) ==
    IF i > Len(s) THEN (IF cur = <<>> THEN acc ELSE Append(acc, cur))
    ELSE IF IsSpace(s[i])
         THEN SplitFrom(s, i + 1, <<>>, IF cur = <<>> THEN acc ELSE Append(acc, cur))
         ELSE SplitFrom(s, i + 1, Append(cur, s[i]), acc)

\* str.split(): the whitespace-delimited tokens
Split(s) == SplitFrom(s, 1, <<>>, <<>>)

RECURSIVE Join(_, _)
\* sep.join(words)
Join(words, sep) ==
    IF words = <<>> THEN <<>>
    ELSE IF Len(words) = 1 THEN words[1]
         ELSE words[1] \o sep \o Join(Tail(words), sep)

\* ' '.join(words[1:])
JoinRest(words) == Join(Tail(words), <<" ">>)

\* \b at the position before s[i] (i = Len(s) + 1: the end of the string)
WordBoundary(s, i) ==
    LET before == i > 1 /\ IsWord(s[i - 1])
        after  == i <= Len(s) /\ IsWord(s[i])
    IN  before # after

RECURSIVE SkipWhile(_, _, _)
\* the first position from i on whose atom is not in class
SkipWhile(s, i, class) ==
    IF i <= Len(s) /\ s[i] \in class THEN SkipWhile(s, i + 1, class) ELSE i

---------------------------------------------------------------------------
(* clean_org_name *)

DuplicateWords == {"complex", "species"}
Qualifiers == {"possible", "suspected"}

RECURSIVE SubSpacesHyphensFrom(_, _, _)
SubSpacesHyphensFrom(s, i, acc) ==
    IF i > Len(s) THEN acc
    ELSE IF s[i] \in {" ", "-"}
         THEN SubSpacesHyphensFrom(s, SkipWhile(s, i, {" ", "-"}), Append(acc, " "))
         ELSE SubSpacesHyphensFrom(s, i + 1, Append(acc, s[i]))

\* patterns_iso_org['spaces_hyphens'].sub(' ', s): every run of [\s\-]+ becomes ' '
SubSpacesHyphens(s) == SubSpacesHyphensFrom(s, 1, <<>>)

\* The end of a match of \b(complex|species)\s+\1\b (re.I) starting at i, or 0
MatchDuplicateWords(s, i) ==
    LET j == SkipWhile(s, i + 1, {" "})
    IN  IF /\ WordBoundary(s, i)
           /\ LowerAtom(s[i]) \in DuplicateWords
           /\ j > i + 1
           /\ j <= Len(s)
           /\ LowerAtom(s[j]) = LowerAtom(s[i])
           /\ WordBoundary(s, j + 1)
        THEN j ELSE 0

RECURSIVE SubDuplicateWordsFrom(_, _, _)
SubDuplicateWordsFrom(s, i, acc) ==
    IF i > Len(s) THEN acc
    ELSE LET j == MatchDuplicateWords(s, i)
         IN  IF j # 0 THEN SubDuplicateWordsFrom(s, j + 1, Append(acc, s[i]))
             ELSE SubDuplicateWordsFrom(s, i + 1, Append(acc, s[i]))

\* patterns_iso_org['duplicate_words'].sub(r'\1', s): the non-overlapping
\* matches, found left to right, each replaced by its first word
SubDuplicateWords(s) == SubDuplicateWordsFrom(s, 1, <<>>)

\* patterns_iso_org['possible_suspected_parenthesis'].search(s):
\* \((suspected|possible)\)$
SearchParenthesis(s) ==
    /\ Len(s) >= 3
    /\ s[Len(s) - 2] = "("
    /\ s[Len(s) - 1] \in Qualifiers
    /\ s[Len(s)] = ")"

\* The position of the qualifier of a match of \ba?\s*(possible|suspected)\b
\* (re.I) starting at i, or 0
MatchPossibleSuspected(s, i) ==
    LET afterA == IF i <= Len(s) /\ LowerAtom(s[i]) = "a" THEN i + 1 ELSE i
        j == SkipWhile(s, afterA, {" "})
    IN  IF /\ WordBoundary(s, i)
           /\ j <= Len(s)
           /\ LowerAtom(s[j]) \in Qualifiers
           /\ WordBoundary(s, j + 1)
        THEN j ELSE 0

\* patterns_iso_org['possible_suspected'].search(s): the leftmost match's
\* start, or 0
SearchPossibleSuspected(s) ==
    LET starts == {i \in 1..Len(s) : MatchPossibleSuspected(s, i) # 0}
    IN  IF starts = {} THEN 0 ELSE CHOOSE i \in starts : \A k \in starts : i <= k

RECURSIVE SubPossibleSuspectedFrom(_, _, _)
SubPossibleSuspectedFrom(s, i, acc) ==
    IF i > Len(s) THEN acc
    ELSE LET j == MatchPossibleSuspected(s, i)
         IN  IF j # 0 THEN SubPossibleSuspectedFrom(s, j + 1, acc)
             ELSE SubPossibleSuspectedFrom(s, i + 1, Append(acc, s[i]))

\* patterns_iso_org['possible_suspected'].sub('', s)
SubPossibleSuspected(s) == SubPossibleSuspectedFrom(s, 1, <<>>)

\* What a call gives: a returned string, or the IndexError of words[0] on an
\* empty list
Return(v) == [raised |-> FALSE, value |-> v]
IndexError == [raised |-> TRUE, value |-> <<>>]

clean_org_name(t) ==
    LET org_name == SubDuplicateWords(SubSpacesHyphens(Lower(Strip(t))))
    IN  IF SearchParenthesis(org_name)
        THEN LET words == Split(org_name)
             IN  IF words # <<>>
                 THEN Return(Capitalize(words[1]) \o <<" ">> \o JoinRest(words))
                 ELSE Return(org_name)
        ELSE LET m == SearchPossibleSuspected(org_name)
             IN  IF m # 0
                 THEN LET group1 == org_name[MatchPossibleSuspected(org_name, m)]
                          words == Split(Strip(SubPossibleSuspected(org_name)))
                      IN  IF words = <<>> THEN IndexError
                          ELSE LET clean_name ==
                                       Join(Split(Capitalize(words[1]) \o <<" ">> \o JoinRest(words)),
                                            <<" ">>)
                               IN  Return(Strip(clean_name \o <<" ", "(", group1, ")">>))
                 ELSE LET words == Split(org_name)
                      IN  IF words = <<>> THEN IndexError
                          ELSE Return(Strip(Capitalize(words[1]) \o <<" ">> \o JoinRest(words)))

---------------------------------------------------------------------------
(* The normalizer on its own: every string of at most MaxLen atoms *)

MaxLen == 5

InputAtoms == {" ", "-", "(", ")", "a", "complex", "possible"}

RECURSIVE StringsUpTo(_)
StringsUpTo(n) ==
    IF n = 0 THEN {<<>>}
    ELSE LET shorter == StringsUpTo(n - 1)
         IN  shorter \cup {Append(s, a) : s \in {x \in shorter : Len(x) = n - 1}, a \in InputAtoms}

\* Strings the specification's scenarios name
ScenarioInputs ==
    { <<"possible", " ", "E", ".", " ", "Coli">>,
      <<"possible", " ", "e", " ", "coli">>,
      <<"Klebsiella", " ", "species", " ", "species", " ", "species">>,
      <<"E", " ", "coli", " ", "(", "suspected", ")">> }

NotRun == [raised |-> FALSE, value |-> <<"-">>]

\* The variables of the steps a specification does not take
EmptyDict == <<>>
NotGrouped == [raised |-> FALSE, value |-> EmptyDict]
IdleClean == text = <<>> /\ cleaned = NotRun /\ recleaned = NotRun
IdleGroup == choices = <<>> /\ score = <<>> /\ matches_dict = NotGrouped
NotApplied == [raised |-> FALSE, value |-> <<>>]
IdleApply == selected_column = "" /\ data0 = <<>> /\ data1 = NotApplied
NoSessionState ==
    [confirm_replacements |-> "unset", review_replacements |-> "unset", user_mappings |-> EmptyDict]
IdleSession ==
    /\ mapping_file = EmptyDict
    /\ session_state = NoSessionState
    /\ selected_group = "None"
    /\ replace = <<>>
    /\ other = <<>>
    /\ offered_keys = <<>>
    /\ applier_ran = FALSE
    /\ self_clean_name_cache = EmptyDict

InitClean ==
    /\ pc = "input"
    /\ IdleGroup
    /\ IdleApply
    /\ IdleSession
    /\ mapping = EmptyDict
    /\ text \in StringsUpTo(MaxLen) \cup ScenarioInputs
    /\ cleaned = NotRun
    /\ recleaned = NotRun

\* clean_org_name(text)
Clean ==
    /\ pc = "input"
    /\ cleaned' = clean_org_name(text)
    /\ pc' = "cleaned"
    /\ UNCHANGED <<text, recleaned, groupVars, mapping, applyVars, sessVars, cacheVars>>

\* clean_org_name applied to a value clean_org_name returned
Reclean ==
    /\ pc = "cleaned"
    /\ ~cleaned.raised
    /\ recleaned' = clean_org_name(cleaned.value)
    /\ pc' = "recleaned"
    /\ UNCHANGED <<text, cleaned, groupVars, mapping, applyVars, sessVars, cacheVars>>

NextClean == Clean \/ Reclean

SpecClean == InitClean /\ [][NextClean]_vars

\* C1: normalization is idempotent: wherever clean_org_name returns a value,
\* applying it to that value returns the same value.
C1_IdempotentNormalization ==
    pc = "recleaned" => recleaned = cleaned

\* C7: clean_org_name of a string that is empty after trimming returns the
\* empty string and raises nothing.
C7_EmptyInputReturnsEmpty ==
    (pc = "cleaned" /\ Strip(text) = <<>>) => cleaned = Return(<<>>)

---------------------------------------------------------------------------
(* The similarity groupers *)

\* limit=10 of process.extract
Limit == 10

\* The keys of a dictionary, and the elements of a list
Keys(d) == DOMAIN d
Elems(l) == {l[i] : i \in 1..Len(l)}

\* process.extract(query, choices, limit=10): the (choice, score) pairs in
\* descending score, equal scores in the order of choices (heapq.nlargest is
\* sorted(..., reverse=True)[:limit]), cut to the first Limit
extract(query, ch, sc) ==
    LET n == Len(ch)
        s(i) == sc[query][ch[i]]
        rank(i) == Cardinality({j \in 1..n : s(j) > s(i) \/ (s(j) = s(i) /\ j < i)}) + 1
        len == IF n < Limit THEN n ELSE Limit
    IN  [p \in 1..len |-> LET i == CHOOSE i \in 1..n : rank(i) = p IN <<ch[i], s(i)>>]

\* matches[1:]
Rest(matches) == IF matches = <<>> THEN <<>> ELSE Tail(matches)

\* [m[0] for m in matches if m[1] == highest_score]
NamesAt(matches, highest_score) ==
    LET hit(m) == m[2] = highest_score
        hits == SelectSeq(matches, hit)
    IN  [i \in 1..Len(hits) |-> hits[i][1]]

\* ExcludeMapped without its test: every cluster is kept
ExcludeMapped_KeepAll(d, m) == d

\* The dictionary without the keys already in the mapping
ExcludeMapped(d, m) == [k \in Keys(d) \ Keys(m) |-> d[k]]

\* get_clinic_names_matches of src/app.py: matches[1][1] raises IndexError
\* when process.extract gave a single match
get_clinic_names_matches(ch, sc, m) ==
    LET matches(k) == extract(k, ch, sc)
        cluster(k) == NamesAt(Rest(matches(k)), matches(k)[2][2])
    IN  IF \E k \in Elems(ch) : Len(matches(k)) < 2
        THEN [raised |-> TRUE, value |-> EmptyDict]
        ELSE [raised |-> FALSE,
              value |-> ExcludeMapped([k \in {x \in Elems(ch) : cluster(x) # <<>>} |-> cluster(k)], m)]

\* DataPreprocessor.get_clinic_names_matches: highest_score is 100 when
\* process.extract gave a single match
dp_get_clinic_names_matches(ch, sc, m) ==
    LET matches(k) == extract(k, ch, sc)
        highest_score(k) == IF Len(matches(k)) > 1 THEN matches(k)[2][2] ELSE 100
        cluster(k) == NamesAt(Rest(matches(k)), highest_score(k))
    IN  [raised |-> FALSE,
         value |-> ExcludeMapped([k \in {x \in Elems(ch) : cluster(x) # <<>>} |-> cluster(k)], m)]

\* The batch grouping of the isolated organisms: the matches without the
\* organism itself, then those at the first remaining score
isolated_org_names_matches(batch_organisms, sc, m) ==
    LET others(org) == LET notSelf(x) == x[1] # org
                       IN  SelectSeq(extract(org, batch_organisms, sc), notSelf)
        grouped == {org \in Elems(batch_organisms) : others(org) # <<>> /\ org \notin Keys(m)}
    IN  [raised |-> FALSE,
         value |-> [org \in grouped |-> NamesAt(others(org), others(org)[1][2])]]

---------------------------------------------------------------------------
(* The groupers on every small key set and every score assignment *)

MaxKeys == 3

\* What the scorer gives two different keys that both hold letters or digits
OtherScores == {86, 100}

\* The scorer: 0 when the query or the choice holds no letter or digit (blank),
\* 100 for a key against itself, off[<<q, c>>] otherwise
ScoreMatrix(n, blank, off) ==
    [q \in 1..n |-> [c \in 1..n |->
        IF q \in blank \/ c \in blank THEN 0
        ELSE IF q = c THEN 100
        ELSE off[<<q, c>>]]]

OffPairs(n, blank) == {p \in ((1..n) \ blank) \X ((1..n) \ blank) : p[1] # p[2]}

\* The dictionary that maps every key of S to itself
SelfMapping(S) == [k \in S |-> k]

\* Keys are numbered in their sorted order: choices is <<1, ..., n>>.
InitGroup ==
    /\ pc = "keys"
    /\ IdleClean
    /\ IdleApply
    /\ IdleSession
    /\ matches_dict = NotGrouped
    /\ \/ \E n \in 1..MaxKeys :
            /\ choices = [i \in 1..n |-> i]
            /\ \E blank \in SUBSET (1..n) :
                 \E off \in [OffPairs(n, blank) -> OtherScores] :
                    score = ScoreMatrix(n, blank, off)
            /\ \E S \in SUBSET (1..n) : mapping = SelfMapping(S)
       \* more keys than process.extract returns, all scoring the same
       \/ \E n \in (Limit + 1)..(Limit + 2) :
            /\ choices = [i \in 1..n |-> i]
            /\ \E t \in OtherScores :
                 score = ScoreMatrix(n, {}, [p \in OffPairs(n, {}) |-> t])
            /\ mapping = EmptyDict

\* get_clinic_names_matches(data0, selected_column, mapping) of src/app.py
GroupClinic ==
    /\ pc = "keys"
    /\ matches_dict' = get_clinic_names_matches(choices, score, mapping)
    /\ pc' = "clinic_app"
    /\ UNCHANGED <<cleanVars, choices, score, mapping, applyVars, sessVars, cacheVars>>

\* DataPreprocessor.get_clinic_names_matches()
GroupClinicDP ==
    /\ pc = "keys"
    /\ matches_dict' = dp_get_clinic_names_matches(choices, score, mapping)
    /\ pc' = "clinic_dp"
    /\ UNCHANGED <<cleanVars, choices, score, mapping, applyVars, sessVars, cacheVars>>

\* The grouping of the selected batch of isolated organisms
GroupOrganisms ==
    /\ pc = "keys"
    /\ matches_dict' = isolated_org_names_matches(choices, score, mapping)
    /\ pc' = "organisms"
    /\ UNCHANGED <<cleanVars, choices, score, mapping, applyVars, sessVars, cacheVars>>

NextGroup == GroupClinic \/ GroupClinicDP \/ GroupOrganisms

SpecGroup == InitGroup /\ [][NextGroup]_vars

Grouped == pc \in {"clinic_app", "clinic_dp", "organisms"}

\* C2: a key never appears in the candidate list of its own cluster, in
\* either pipeline and for every score assignment.
C2_KeyNotInOwnCluster ==
    Grouped => \A k \in Keys(matches_dict.value) : k \notin Elems(matches_dict.value[k])

\* The highest score among k's matches other than k itself
HighestOtherScore(k) ==
    LET others == {score[k][c] : c \in Elems(choices) \ {k}}
    IN  CHOOSE h \in others : \A x \in others : h >= x

\* C3: tie completeness: every other key that scores the highest score among
\* k's non-self matches is in k's candidate list, for any number of keys.
C3_TieCompleteness ==
    Grouped =>
        \A k \in Keys(matches_dict.value) :
            \A c \in Elems(choices) \ {k} :
                score[k][c] = HighestOtherScore(k) => c \in Elems(matches_dict.value[k])

\* C4: cluster exclusion: a key that is in the mapping when grouping runs is
\* never a key of the grouper's output, in either pipeline.
C4_ClusterExclusion ==
    Grouped => Keys(matches_dict.value) \cap Keys(mapping) = {}

\* C4's case: an unresolved key scores 100 against a mapped key and lists it
\* as a candidate, and the mapped key itself is not offered.
C4_Witness ==
    /\ Grouped
    /\ \E k \in Keys(matches_dict.value), m \in Keys(mapping) :
          /\ score[k][m] = 100
          /\ m \in Elems(matches_dict.value[k])
          /\ m \notin Keys(matches_dict.value)

\* C6: grouping a single unique key completes without an error and yields no
\* cluster, in every grouper.
C6_DegenerateGrouping ==
    (Grouped /\ Len(choices) = 1) =>
        (~matches_dict.raised /\ Keys(matches_dict.value) = {})

---------------------------------------------------------------------------
(* The appliers *)

\* A null cell (pd.isnull)
Null == <<"NaN">>

\* dict.get(k, default)
Get(d, k, default) == IF k \in DOMAIN d THEN d[k] ELSE default

RECURSIVE SplitOnFrom(_, _, _, _, _)
SplitOnFrom(s, sep, i, cur, acc) ==
    IF i > Len(s) THEN Append(acc, cur)
    ELSE IF s[i] = sep THEN SplitOnFrom(s, sep, i + 1, <<>>, Append(acc, cur))
         ELSE SplitOnFrom(s, sep, i + 1, Append(cur, s[i]), acc)

\* str.split(sep): one more piece than there are separators
SplitOn(s, sep) == SplitOnFrom(s, sep, 1, <<>>, <<>>)

\* words[:-1]
Front(words) == IF words = <<>> THEN <<>> ELSE SubSeq(words, 1, Len(words) - 1)

\* remove_clinic_dept(text)
remove_clinic_dept(t) == Return(Join(Front(Split(t)), <<" ">>))

\* get_clinic_dept with words[0] for words[-1]: the first token
get_clinic_dept_FirstWord(t) ==
    LET words == Split(t)
    IN  IF words = <<>> THEN IndexError ELSE Return(words[1])

\* get_clinic_dept(text): words[-1] raises IndexError on a cell without a token
get_clinic_dept(t) ==
    LET words == Split(t)
    IN  IF words = <<>> THEN IndexError ELSE Return(words[Len(words)])

dept_replacements == (<<"Onc", ".">> :> <<"Oncology">>)

\* Replace with no fall-back to the value itself
Replace_NoDefault(v, d) == Get(d, v, <<>>)

\* Series.replace(d): a value that is a key of d becomes d's value for it,
\* every other value stays
Replace(v, d) == Get(d, v, v)

\* mapping.get(cleaned_org, '')
std_org_NoDefault(m, cleaned_org) == Get(m, cleaned_org, <<>>)

\* The cleaned name itself, the mapping not consulted
std_org_Unmapped(m, cleaned_org) == cleaned_org

\* std_org = mapping.get(cleaned_org, cleaned_org)
std_org(m, cleaned_org) == Get(m, cleaned_org, cleaned_org)

\* What a loop with a cache gives: the exception or the value, and the cache
Raised(cache) == [raised |-> TRUE, value |-> <<>>, cache |-> cache]
Returned(v, cache) == [raised |-> FALSE, value |-> v, cache |-> cache]

\* The exception or the value alone
Outcome(r) == [raised |-> r.raised, value |-> r.value]

RECURSIVE ReplaceOrgs(_, _, _, _, _)
\* The step of ReplaceOrgs for a fragment not in the cache, r its cleaned name
ReplaceCleaned(orgs, j, cache, replaced, m, org, r) ==
    IF r.raised THEN [raised |-> TRUE, cache |-> cache, replaced |-> replaced]
    ELSE ReplaceOrgs(orgs, j + 1, cache @@ (org :> r.value),
                     Append(replaced, std_org(m, r.value)), m)

\* The inner loop of the organism applier over the fragments orgs[j..]
ReplaceOrgs(orgs, j, cache, replaced, m) ==
    IF j > Len(orgs) THEN [raised |-> FALSE, cache |-> cache, replaced |-> replaced]
    ELSE IF Strip(orgs[j]) \in DOMAIN cache
         THEN ReplaceOrgs(orgs, j + 1, cache,
                          Append(replaced, std_org(m, cache[Strip(orgs[j])])), m)
         ELSE ReplaceCleaned(orgs, j, cache, replaced, m, Strip(orgs[j]),
                             clean_org_name(Strip(orgs[j])))

RECURSIVE ReplaceEntries(_, _, _, _, _)
\* The step of ReplaceEntries for an entry, r what its fragments gave
ReplaceEntry(column, i, replaced_entry_list, m, r) ==
    IF r.raised THEN Raised(r.cache)
    ELSE ReplaceEntries(column, i + 1, r.cache,
                        Append(replaced_entry_list, Join(r.replaced, <<" ", "&", " ">>)), m)

\* The loop of the organism applier over the entries column[i..]
ReplaceEntries(column, i, clean_name_cache, replaced_entry_list, m) ==
    IF i > Len(column) THEN Returned(replaced_entry_list, clean_name_cache)
    ELSE IF column[i] = Null
         THEN ReplaceEntries(column, i + 1, clean_name_cache, Append(replaced_entry_list, <<>>), m)
         ELSE ReplaceEntry(column, i, replaced_entry_list, m,
                           ReplaceOrgs(SplitOn(column[i], "&"), 1, clean_name_cache, <<>>, m))

\* The isolated organisms applier of src/app.py: a fresh cache, every entry
apply_isolated_organisms(column, m) == Outcome(ReplaceEntries(column, 1, EmptyDict, <<>>, m))

\* The clinic name applier: location and department of every cell, the
\* location replaced through the mapping, the department through
\* dept_replacements
apply_clinic_names(column, m) ==
    IF \E i \in 1..Len(column) : get_clinic_dept(column[i]).raised
    THEN IndexError
    ELSE Return([i \in 1..Len(column) |->
                    Replace(remove_clinic_dept(column[i]).value, m)
                    \o <<" ">> \o
                    Replace(get_clinic_dept(column[i]).value, dept_replacements)])

---------------------------------------------------------------------------
(* The appliers on every short column of cells and every small mapping *)

MaxCells == 2

EColi == <<"E", " ", "coli">>
KlebsiellaPossible == <<"Klebsiella", " ", "(", "possible", ")">>
EscherichiaColi == <<"Escherichia", " ", "coli">>

\* Scenario 5 of the specification
ScenarioCell == <<"E", " ", "coli", " ", "&", " ", "possible", " ", "Klebsiella">>
ScenarioMapping == (EColi :> EscherichiaColi)
ScenarioOutput ==
    <<"Escherichia", " ", "coli", " ", "&", " ", "Klebsiella", " ", "(", "possible", ")">>

OrganismCells ==
    { Null,
      <<"E", " ", "coli">>,
      <<"possible", " ", "Klebsiella">>,
      ScenarioCell,
      <<"possible", " ", "Klebsiella", "&", "e", "-", "coli">>,
      <<"E", " ", "coli", " ", "&">> }

\* The cleaned names of OrganismCells, and what a mapping may give for them
OrganismKeys == {EColi, KlebsiellaPossible}
OrganismValues == {EColi, KlebsiellaPossible, EscherichiaColi}

MainStClinic == <<"Main", " ", "St", " ", "Clinic">>
MainHyphenStClinic == <<"Main", "-", "St", " ", "Clinic">>
MainStreetClinic == <<"Main", " ", "Street", " ", "Clinic">>

ClinicCells ==
    { <<"Main", " ", "St", " ", "Clinic", " ", "Onc", ".">>,
      <<" ", "Main", "-", "St", " ", " ", "Clinic", " ", "Onc", ".">>,
      <<"Main", " ", "St", " ", "Clinic", " ", "Cardio">>,
      <<"Onc", ".">>,
      <<" ">> }

ClinicKeys == {MainStClinic, MainHyphenStClinic}
ClinicValues == {MainStClinic, MainHyphenStClinic, MainStreetClinic}

RECURSIVE ColumnsUpTo(_, _)
\* The columns of 1 to n cells
ColumnsUpTo(cells, n) ==
    IF n = 1 THEN {<<c>> : c \in cells}
    ELSE LET shorter == ColumnsUpTo(cells, n - 1)
         IN  shorter \cup {Append(col, c) : col \in {x \in shorter : Len(x) = n - 1}, c \in cells}

\* The dictionaries from some of the keys to the values
Mappings(keys, values) == UNION {[S -> values] : S \in SUBSET keys}

InitApply ==
    /\ pc = "column"
    /\ IdleClean
    /\ IdleGroup
    /\ IdleSession
    /\ data1 = NotApplied
    /\ \/ /\ selected_column = "Isolated Organisms"
          /\ data0 \in ColumnsUpTo(OrganismCells, MaxCells)
          /\ mapping \in Mappings(OrganismKeys, OrganismValues)
       \/ /\ selected_column = "Clinic Name"
          /\ data0 \in ColumnsUpTo(ClinicCells, MaxCells)
          /\ mapping \in Mappings(ClinicKeys, ClinicValues)

\* The isolated organisms applier
ApplyOrganisms ==
    /\ pc = "column"
    /\ selected_column = "Isolated Organisms"
    /\ data1' = apply_isolated_organisms(data0, mapping)
    /\ pc' = "applied"
    /\ UNCHANGED <<cleanVars, groupVars, mapping, selected_column, data0, sessVars, cacheVars>>

\* The clinic name applier
ApplyClinic ==
    /\ pc = "column"
    /\ selected_column = "Clinic Name"
    /\ data1' = apply_clinic_names(data0, mapping)
    /\ pc' = "applied"
    /\ UNCHANGED <<cleanVars, groupVars, mapping, selected_column, data0, sessVars, cacheVars>>

NextApply == ApplyOrganisms \/ ApplyClinic

SpecApply == InitApply /\ [][NextApply]_vars

Applied == pc = "applied" /\ ~data1.raised
AppliedOrganisms == Applied /\ selected_column = "Isolated Organisms"
AppliedClinic == Applied /\ selected_column = "Clinic Name"

\* The cleaned name of the j-th '&'-separated fragment of a cell
CleanedFragment(cell, j) == clean_org_name(Strip(SplitOn(cell, "&")[j])).value

\* The pieces of an output cell between its '&', less the blank on each side
\* of an '&'
OutputPieces(out) ==
    LET raw == SplitOn(out, "&")
        n == Len(raw)
    IN  [j \in 1..n |->
            SubSeq(raw[j], IF j > 1 THEN 2 ELSE 1,
                           IF j < n THEN Len(raw[j]) - 1 ELSE Len(raw[j]))]

\* An output clinic cell up to the blank before its last token
OutputLocation(out) ==
    LET blanks == {i \in 1..Len(out) : out[i] = " "}
        last == CHOOSE i \in blanks : \A k \in blanks : i >= k
    IN  SubSeq(out, 1, last - 1)

\* C8: the organism applier gives one value per cell in order, the empty
\* string for a null cell, and for any other cell its fragments, each
\* trimmed, cleaned and replaced by the mapping's value when there is one,
\* joined with ' & ' in their order.
C8_OrganismApplier ==
    AppliedOrganisms =>
        /\ Len(data1.value) = Len(data0)
        /\ \A i \in 1..Len(data0) :
              IF data0[i] = Null THEN data1.value[i] = <<>>
              ELSE LET n == Len(SplitOn(data0[i], "&"))
                       expected(j) ==
                           LET c == CleanedFragment(data0[i], j)
                           IN  IF c \in DOMAIN mapping THEN mapping[c] ELSE c
                   IN  /\ data1.value[i] = Join([j \in 1..n |-> expected(j)], <<" ", "&", " ">>)
                       /\ (data0[i] = ScenarioCell /\ mapping = ScenarioMapping)
                              => data1.value[i] = ScenarioOutput

\* C8's case: the specification's scenario cell after a null cell
C8_Witness ==
    /\ AppliedOrganisms
    /\ data0 = <<Null, ScenarioCell>>
    /\ mapping = ScenarioMapping
    /\ data1.value = <<<<>>, ScenarioOutput>>

\* C9: a cleaned organism fragment, or a clinic location, without an entry in
\* the mapping is in the output unchanged, whatever the mapping holds.
C9_MappingPassThrough ==
    /\ AppliedOrganisms =>
          \A i \in 1..Len(data0) :
              data0[i] # Null =>
                  \A j \in 1..Len(SplitOn(data0[i], "&")) :
                      CleanedFragment(data0[i], j) \notin DOMAIN mapping
                          => OutputPieces(data1.value[i])[j] = CleanedFragment(data0[i], j)
    /\ AppliedClinic =>
          \A i \in 1..Len(data0) :
              remove_clinic_dept(data0[i]).value \notin DOMAIN mapping
                  => OutputLocation(data1.value[i]) = remove_clinic_dept(data0[i]).value

\* C9's case: a mapping with an entry for one key of the cell and none for
\* the other, whose name is in the output
C9_Witness ==
    /\ AppliedOrganisms
    /\ data0[1] = ScenarioCell
    /\ DOMAIN mapping = {EColi}
    /\ OutputPieces(data1.value[1])[2] = KlebsiellaPossible

\* The normalized keys of the column: the cleaned fragments of its non-null
\* cells, or the locations of its cells
NormalizedKeys ==
    IF selected_column = "Isolated Organisms"
    THEN UNION {{CleanedFragment(data0[i], j) : j \in 1..Len(SplitOn(data0[i], "&"))} :
                    i \in {x \in 1..Len(data0) : data0[x] # Null}}
    ELSE {remove_clinic_dept(data0[i]).value : i \in 1..Len(data0)}

\* The names in the standardized column: the pieces of its organism cells, or
\* the locations of its clinic cells
OutputForms ==
    IF selected_column = "Isolated Organisms"
    THEN UNION {Elems(OutputPieces(data1.value[i])) :
                    i \in {x \in 1..Len(data0) : data0[x] # Null}}
    ELSE {OutputLocation(data1.value[i]) : i \in 1..Len(data0)}

AllKeysMapped == NormalizedKeys \subseteq DOMAIN mapping

\* C10 as stated: with an entry for every normalized key, the output holds
\* none of the original normalized forms.
C10_NoOriginalFormLeft ==
    (Applied /\ AllKeysMapped) => OutputForms \cap NormalizedKeys = {}

\* C10 as amended: with an entry for every normalized key, the names of the
\* output are exactly the mapping's values for the column's keys, so an
\* original normalized form is in the output only as the replacement value of
\* a key of the column (a keep-as-is entry, or a candidate that is a key).
C10_OnlyMappedValuesLeft ==
    (Applied /\ AllKeysMapped) =>
        /\ OutputForms = {mapping[k] : k \in NormalizedKeys}
        /\ \A k \in NormalizedKeys \cap OutputForms :
              \E k2 \in NormalizedKeys : mapping[k2] = k

\* C10's case: a keep-as-is entry, whose key stays in the output, beside an
\* entry whose key the output no longer holds
C10_Witness ==
    /\ AppliedOrganisms
    /\ NormalizedKeys = OrganismKeys
    /\ mapping = (EColi :> EColi) @@ (KlebsiellaPossible :> EscherichiaColi)
    /\ EColi \in OutputForms
    /\ KlebsiellaPossible \notin OutputForms

----------------------------------------------------------------------------
(* The two column sessions of src/app.py.  Streamlit runs the script from  *)
(* top to bottom after every interaction of the operator; st.session_state *)
(* and the values of the widgets are what one run leaves to the next.      *)

\* The atoms in the order of their first character's code point, words that
\* share it in the order of the strings
AtomsInOrder ==
    <<" ", "&", "(", ")", "-", ".",
      "A", "Cardio", "Clinic", "Coli", "Complex", "E", "Escherichia", "Klebsiella", "Main",
      "Onc", "Oncology", "Possible", "Species", "St", "Street", "Suspected",
      "a", "coli", "complex", "e", "escherichia", "klebsiella", "possible", "species",
      "suspected">>

AtomRank(a) == CHOOSE i \in 1..Len(AtomsInOrder) : AtomsInOrder[i] = a

RECURSIVE Less(_, _)
\* s < t of two strings.  Atom by atom this is the order of the characters
\* as long as a word that begins another word is followed by a non-word
\* atom or by nothing, which holds for the names below
Less(s, t) ==
    IF t = <<>> THEN FALSE
    ELSE IF s = <<>> THEN TRUE
    ELSE IF s[1] = t[1] THEN Less(Tail(s), Tail(t))
    ELSE AtomRank(s[1]) < AtomRank(t[1])

\* sorted(S) of a set of strings
Sorted(S) ==
    LET pos(s) == Cardinality({t \in S : Less(t, s)}) + 1
    IN  [p \in 1..Cardinality(S) |-> CHOOSE s \in S : pos(s) = p]

RECURSIVE CollectOrgs(_, _, _, _)
\* CollectCleaned that stores the fragment itself in the cache
CollectCleaned_CacheFragment(orgs, j, cache, unique, iso_org, r) ==
    IF r.raised THEN [raised |-> TRUE, cache |-> cache, unique |-> unique]
    ELSE CollectOrgs(orgs, j + 1, cache @@ (iso_org :> iso_org), unique \cup {r.value})

\* The step of CollectOrgs for a fragment not in the cache, r its cleaned name
CollectCleaned(orgs, j, cache, unique, iso_org, r) ==
    IF r.raised THEN [raised |-> TRUE, cache |-> cache, unique |-> unique]
    ELSE CollectOrgs(orgs, j + 1, cache @@ (iso_org :> r.value), unique \cup {r.value})

\* The inner loop of get_isolated_org_matches over the fragments orgs[j..]
CollectOrgs(orgs, j, cache, unique) ==
    IF j > Len(orgs) THEN [raised |-> FALSE, cache |-> cache, unique |-> unique]
    ELSE IF Strip(orgs[j]) \in DOMAIN cache
         THEN CollectOrgs(orgs, j + 1, cache, unique \cup {cache[Strip(orgs[j])]})
         ELSE CollectCleaned(orgs, j, cache, unique, Strip(orgs[j]),
                             clean_org_name(Strip(orgs[j])))

RECURSIVE CollectEntries(_, _, _, _)
\* The step of CollectEntries for an entry, r what its fragments gave
CollectEntry(column, i, r) ==
    IF r.raised THEN Raised(r.cache)
    ELSE CollectEntries(column, i + 1, r.cache, r.unique)

\* The outer loop of get_isolated_org_matches over the entries column[i..],
\* the missing ones dropped
CollectEntries(column, i, clean_name_cache, unique_iso_org) ==
    IF i > Len(column) THEN Returned(unique_iso_org, clean_name_cache)
    ELSE IF column[i] = Null
         THEN CollectEntries(column, i + 1, clean_name_cache, unique_iso_org)
         ELSE CollectEntry(column, i,
                           CollectOrgs(SplitOn(column[i], "&"), 1, clean_name_cache,
                                       unique_iso_org))

\* The upper-cased first character of a word
InitialOf ==
    ("a" :> "A") @@ ("complex" :> "C") @@ ("species" :> "S") @@ ("possible" :> "P") @@
    ("suspected" :> "S") @@ ("e" :> "E") @@ ("coli" :> "C") @@ ("klebsiella" :> "K") @@
    ("escherichia" :> "E")

\* org[0].upper() if org else '#'
genus_letter(org) ==
    IF org = <<>> THEN "#"
    ELSE IF org[1] \in WordAtoms THEN InitialOf[LowerAtom(org[1])]
    ELSE org[1]

\* organism_groups with a single batch '#' for every name
organism_groups_OneBatch(unique_iso_org) ==
    IF unique_iso_org.raised THEN IndexError
    ELSE Return([l \in {"#"} |-> Sorted(unique_iso_org.value)])

\* The batches of get_isolated_org_matches: the cleaned names, sorted, under
\* their first letter
organism_groups(unique_iso_org) ==
    IF unique_iso_org.raised THEN IndexError
    ELSE Return([l \in {genus_letter(org) : org \in unique_iso_org.value} |->
                    Sorted({org \in unique_iso_org.value : genus_letter(org) = l})])

\* get_isolated_org_matches
get_isolated_org_matches(column) == organism_groups(CollectEntries(column, 1, EmptyDict, {}))

\* clinic_names_unique of get_clinic_names_matches: the locations of the
\* column's cells, sorted
clinic_names_unique(column) == Sorted({remove_clinic_dept(c).value : c \in Elems(column)})

\* The options that end every list of candidates
KeepAsIs == <<"Keep as is">>
TypeIn == <<"Type in replacement..">>

\* st.selectbox(options, key=..._i): what the operator last chose for this
\* index while it is one of the options, the first option otherwise
selectbox(options, stored, i) ==
    IF i \in DOMAIN stored /\ stored[i] \in Elems(options) THEN stored[i] ELSE options[1]

\* st.text_input(key=..._i): what the operator last typed for this index,
\* nothing otherwise
text_input(stored, i) == IF i \in DOMAIN stored THEN stored[i] ELSE <<>>

\* The decision loop over the offered keys ks: the values of the widgets
\* and the entries the loop writes
Decisions(ks, clusters, rep, oth) ==
    LET options(i) == clusters[ks[i]] \o <<KeepAsIs, TypeIn>>
        value == [i \in 1..Len(ks) |-> selectbox(options(i), rep, i)]
        otherRep == [i \in 1..Len(ks) |->
                        IF value[i] = TypeIn THEN text_input(oth, i) ELSE <<>>]
        written == {i \in 1..Len(ks) : value[i] # TypeIn \/ Strip(otherRep[i]) # <<>>}
        entry(i) == IF value[i] = KeepAsIs THEN ks[i]
                    ELSE IF value[i] = TypeIn THEN Strip(otherRep[i])
                    ELSE value[i]
    IN  [value |-> value,
         otherRep |-> otherRep,
         entries |-> [k \in {ks[i] : i \in written} |->
                         entry(CHOOSE i \in written : ks[i] = k)]]

\* d.update(e)
Update(d, e) == e @@ d

\* What one run of the script leaves behind
RunResult(ended, ss, m, grouped, ks, value, otherRep, ran, out) ==
    [pc |-> ended, session_state |-> ss, mapping |-> m, matches_dict |-> grouped,
     offered_keys |-> ks, replace |-> value, other |-> otherRep, applier_ran |-> ran,
     data1 |-> out]

\* A run that an uncaught exception ended before anything was written
Crashed(ss, m) == RunResult("IndexError in grouping", ss, m, NotGrouped, <<>>, <<>>, <<>>, FALSE, NotApplied)

\* The run with the outcome of the applier: an exception ends it, a column
\* is offered for download
WithApplier(r, out) ==
    IF out.raised THEN [r EXCEPT !.pc = "IndexError in applier"]
    ELSE [r EXCEPT !.applier_ran = TRUE, !.data1 = out]

\* list(d.keys()) of a dictionary filled in the order of names
KeysInOrder(names, d) ==
    LET offered(k) == k \in DOMAIN d
    IN  SelectSeq(names, offered)

\* The "Clinic Name" branch from the clusters on: the decision loop writes
\* into the mapping of this run, the buttons set the flags, the applier
\* runs once confirm_replacements is set
clinic_name_decisions(column, file, names, clinic_names_matches, rep, oth, pressed, ss) ==
    LET ks == KeysInOrder(names, clinic_names_matches.value)
        d == Decisions(ks, clinic_names_matches.value, rep, oth)
        m == IF ks = <<>> THEN file ELSE Update(file, d.entries)
        review == IF ks # <<>> /\ pressed = "Review replacements" THEN "True"
                  ELSE ss.review_replacements
        confirm == IF ks = <<>> /\ pressed = "Apply mappings" THEN "True"
                   ELSE IF ks # <<>> /\ review = "True" /\ pressed = "Confirm replacements"
                        THEN "True"
                   ELSE IF ks # <<>> /\ ss.confirm_replacements = "unset" THEN "False"
                   ELSE ss.confirm_replacements
        after == [ss EXCEPT !.review_replacements = review, !.confirm_replacements = confirm]
        r == RunResult("done", after, m, clinic_names_matches, ks, d.value, d.otherRep,
                       FALSE, NotApplied)
    IN  IF clinic_names_matches.raised THEN Crashed(ss, file)
        ELSE IF confirm = "True" THEN WithApplier(r, apply_clinic_names(column, m))
        ELSE r

\* The "Clinic Name" branch from the sorted locations on
clinic_name_clusters(column, sc, file, names, rep, oth, pressed, ss) ==
    clinic_name_decisions(column, file, names, get_clinic_names_matches(names, sc, file),
                          rep, oth, pressed, ss)

\* One run of the "Clinic Name" branch of src/app.py
run_clinic_name(column, sc, file, rep, oth, pressed, ss) ==
    clinic_name_clusters(column, sc, file, clinic_names_unique(column), rep, oth, pressed, ss)

\* The "Isolated Organisms" branch from the clusters of the selected batch
\* on: the decision loop writes into st.session_state['user_mappings'], the
\* review merges them into the mapping of this run, the applier runs once
\* confirm_replacements is set
isolated_organisms_decisions(column, file, batch_organisms, matches, rep, oth, pressed, ss) ==
    LET ks == KeysInOrder(batch_organisms, matches.value)
        d == Decisions(ks, matches.value, rep, oth)
        user_mappings == IF ks = <<>> THEN ss.user_mappings
                         ELSE Update(ss.user_mappings, d.entries)
        review == IF ks # <<>> /\ pressed = "Review replacements" THEN "True"
                  ELSE ss.review_replacements
        m == IF ks # <<>> /\ review = "True" THEN Update(file, user_mappings) ELSE file
        confirm == IF ks = <<>> /\ pressed = "Apply mappings" THEN "True"
                   ELSE IF ks # <<>> /\ review = "True" /\ pressed = "Confirm replacements"
                        THEN "True"
                   ELSE ss.confirm_replacements
        after == [ss EXCEPT !.user_mappings = user_mappings, !.review_replacements = review,
                            !.confirm_replacements = confirm]
        r == RunResult("done", after, m, matches, ks, d.value, d.otherRep, FALSE, NotApplied)
    IN  IF confirm = "True" THEN WithApplier(r, apply_isolated_organisms(column, m))
        ELSE r

\* The "Isolated Organisms" branch from the selected batch on
isolated_organisms_batch(column, sc, file, batch_organisms, rep, oth, pressed, ss) ==
    isolated_organisms_decisions(column, file, batch_organisms,
                                 isolated_org_names_matches(batch_organisms, sc, file),
                                 rep, oth, pressed, ss)

\* The "Isolated Organisms" branch from the batches on: nothing further
\* happens while no batch is selected
isolated_organisms_groups(column, sc, file, groups, group, rep, oth, pressed, ss) ==
    IF groups.raised THEN Crashed(ss, file)
    ELSE IF group = "None"
         THEN RunResult("done", ss, file, NotGrouped, <<>>, <<>>, <<>>, FALSE, NotApplied)
    ELSE isolated_organisms_batch(column, sc, file, groups.value[group],
                                  rep, oth, pressed, ss)

\* One run of the "Isolated Organisms" branch of src/app.py
run_isolated_organisms(column, sc, file, group, rep, oth, pressed, ss) ==
    isolated_organisms_groups(column, sc, file, get_isolated_org_matches(column), group,
                              rep, oth, pressed, ss)

\* One run of the script on the selected column
run(column_name, column, sc, file, group, rep, oth, pressed, ss) ==
    IF column_name = "Clinic Name"
    THEN run_clinic_name(column, sc, file, rep, oth, pressed, ss)
    ELSE run_isolated_organisms(column, sc, file, group, rep, oth, pressed, ss)

----------------------------------------------------------------------------
(* The sessions on two small tables *)

EDotColi == <<"E", ".", " ", "coli">>

\* Cleaned names E coli and E. coli under E, Klebsiella (possible) under K
OrganismSessionColumn == <<ScenarioCell, Null, EDotColi>>

\* Locations Main St Clinic and Main-St Clinic
ClinicSessionColumn ==
    << <<"Main", " ", "St", " ", "Clinic", " ", "Onc", ".">>,
       <<" ", "Main", "-", "St", " ", " ", "Clinic", " ", "Onc", ".">>,
       <<"Main", " ", "St", " ", "Clinic", " ", "Cardio">> >>

\* A single location
OneClinicColumn == << <<"Main", " ", "St", " ", "Clinic", " ", "Onc", ".">> >>

SessionColumns(column_name) ==
    IF column_name = "Clinic Name" THEN {ClinicSessionColumn, OneClinicColumn}
    ELSE {OrganismSessionColumn}

\* The uploaded mapping file: none, one key mapped, every key of a batch mapped
FileMappings(column_name) ==
    IF column_name = "Clinic Name"
    THEN {EmptyDict, (MainHyphenStClinic :> MainStreetClinic),
          (MainHyphenStClinic :> MainStreetClinic) @@ (MainStClinic :> MainStreetClinic)}
    ELSE {EmptyDict, (EColi :> EscherichiaColi),
          (EColi :> EscherichiaColi) @@ (EDotColi :> EscherichiaColi)}

\* What the operator types: nothing, white space, a name
TextInputs == {<<>>, <<" ">>, EscherichiaColi}

\* The names of all batches
AllNames(groups) == UNION {Elems(groups[l]) : l \in DOMAIN groups}

\* The names the scorer is asked about
SessionNames(column_name, column) ==
    IF column_name = "Clinic Name" THEN Elems(clinic_names_unique(column))
    ELSE AllNames(get_isolated_org_matches(column).value)

\* The scorer on the names: 100 for a name against itself, other for two
\* different names
SessionScore(names, different) ==
    [q \in names |-> [c \in names |-> IF q = c THEN 100 ELSE different]]

\* The state a run r leaves
Leaves(r, pc_, ss_, m_, grouped_, ks_, rep_, oth_, ran_, out_) ==
    /\ pc_ = r.pc
    /\ ss_ = r.session_state
    /\ m_ = r.mapping
    /\ grouped_ = r.matches_dict
    /\ ks_ = r.offered_keys
    /\ rep_ = r.replace
    /\ oth_ = r.other
    /\ ran_ = r.applier_ran
    /\ out_ = r.data1

\* The first run of the script on an uploaded table: no batch selected, no
\* widget touched, nothing in st.session_state
Init ==
    /\ IdleClean
    /\ choices = <<>>
    /\ self_clean_name_cache = EmptyDict
    /\ selected_column \in {"Clinic Name", "Isolated Organisms"}
    /\ data0 \in SessionColumns(selected_column)
    /\ mapping_file \in FileMappings(selected_column)
    /\ score \in {SessionScore(SessionNames(selected_column, data0), s) : s \in OtherScores}
    /\ selected_group = "None"
    /\ Leaves(run(selected_column, data0, score, mapping_file, "None", <<>>, <<>>, "",
                  NoSessionState),
              pc, session_state, mapping, matches_dict, offered_keys, replace, other,
              applier_ran, data1)

\* The rerun of the script that follows an interaction of the operator
Rerun(file, group, rep, oth, pressed) ==
    /\ pc \in {"done", "IndexError in grouping", "IndexError in applier"}
    /\ Leaves(run(selected_column, data0, score, file, group, rep, oth, pressed, session_state),
              pc', session_state', mapping', matches_dict', offered_keys', replace', other',
              applier_ran', data1')
    /\ mapping_file' = file
    /\ selected_group' = group
    /\ UNCHANGED <<cleanVars, choices, score, selected_column, data0, cacheVars>>

\* The widgets of the decision loop were rendered by the last run
Rendered == pc # "IndexError in grouping" /\ offered_keys # <<>>

\* The operator selects a batch or clears the selection; widgets of the same
\* index keep their value or start afresh
SelectGroup ==
    /\ selected_column = "Isolated Organisms"
    /\ pc # "IndexError in grouping"
    /\ \E g \in (DOMAIN get_isolated_org_matches(data0).value \cup {"None"}) \ {selected_group} :
       \E kept \in BOOLEAN :
          Rerun(mapping_file, g, IF kept THEN replace ELSE <<>>, IF kept THEN other ELSE <<>>, "")

\* The operator picks an option of a "Select replacement:" box
SelectReplacement ==
    /\ Rendered
    /\ \E i \in 1..Len(offered_keys) :
       \E v \in (Elems(matches_dict.value[offered_keys[i]]) \cup {KeepAsIs, TypeIn}) \ {replace[i]} :
          Rerun(mapping_file, selected_group, [replace EXCEPT ![i] = v], other, "")

\* The operator edits the text of a "Type in replacement.." input
TypeReplacement ==
    /\ Rendered
    /\ \E i \in 1..Len(offered_keys) :
          /\ replace[i] = TypeIn
          /\ \E t \in TextInputs \ {other[i]} :
                Rerun(mapping_file, selected_group, replace, [other EXCEPT ![i] = t], "")

\* The operator presses "Apply mappings", shown when no key is offered
PressApplyMappings ==
    /\ pc # "IndexError in grouping"
    /\ selected_column = "Clinic Name" \/ selected_group # "None"
    /\ offered_keys = <<>>
    /\ Rerun(mapping_file, selected_group, replace, other, "Apply mappings")

\* The operator presses "Review replacements"
PressReview ==
    /\ Rendered
    /\ Rerun(mapping_file, selected_group, replace, other, "Review replacements")

\* The operator presses "Confirm replacements", shown under the review
PressConfirm ==
    /\ Rendered
    /\ session_state.review_replacements = "True"
    /\ Rerun(mapping_file, selected_group, replace, other, "Confirm replacements")

\* The operator uploads another mapping file or withdraws it
ChangeMappingFile ==
    \E file \in FileMappings(selected_column) \ {mapping_file} :
    \E kept \in BOOLEAN :
       Rerun(file, selected_group, IF kept THEN replace ELSE <<>>, IF kept THEN other ELSE <<>>, "")

Next ==
    \/ SelectGroup
    \/ SelectReplacement
    \/ TypeReplacement
    \/ PressApplyMappings
    \/ PressReview
    \/ PressConfirm
    \/ ChangeMappingFile

Spec == Init /\ [][Next]_vars

\* The last run ended with 'Type in replacement..' selected for the key at
\* index i and nothing but white space in its text input
BlankCustomReplacement(i) ==
    /\ pc = "done"
    /\ i \in 1..Len(offered_keys)
    /\ replace[i] = TypeIn
    /\ Strip(other[i]) = <<>>

\* C5: when the operator has chosen 'Type in replacement..' for a key and the
\* text is blank, the key is unresolved whatever was selected for it before:
\* it is neither among the operator's decisions nor in the mapping that the
\* run applies and exports
C5_BlankCustomReplacement ==
    \A i \in 1..Len(offered_keys) :
        BlankCustomReplacement(i) =>
            /\ offered_keys[i] \notin DOMAIN session_state.user_mappings
            /\ offered_keys[i] \notin DOMAIN mapping

\* C11: the mapping never shrinks within a session: over a step of the
\* operator that leaves the mapping file alone (a selection, a blank custom
\* value, another batch, Review, Confirm), every key of the mapping that was
\* applied and exported before the step is a key of the mapping that is
\* applied and exported after it
C11_MappingNeverShrinks ==
    [][(applier_ran /\ applier_ran' /\ mapping_file' = mapping_file)
          => DOMAIN mapping \subseteq DOMAIN mapping']_vars

\* C12: entries of the uploaded mapping file take precedence: whenever the
\* applier runs and the mapping is exported, every key of the file has the
\* file's value in that mapping, whatever the operator decided for it
\* before or after the file was supplied
C12_ExternalEntriesTakePrecedence ==
    applier_ran => \A k \in DOMAIN mapping_file :
                      k \in DOMAIN mapping /\ mapping[k] = mapping_file[k]

\* C17: in the organism pipeline, whenever the applier runs and the mapping
\* is offered for download, the mapping holds every decision recorded in
\* st.session_state['user_mappings']
C17_AppliedMappingHoldsDecisions ==
    (selected_column = "Isolated Organisms" /\ applier_ran) =>
        \A k \in DOMAIN session_state.user_mappings :
            k \in DOMAIN mapping /\ mapping[k] = session_state.user_mappings[k]

\* The two examples of the qualifier relocation and their stated result
PossibleEDotColi == <<"possible", " ", "E", ".", " ", "Coli">>
PossibleEColi == <<"possible", " ", "e", " ", "coli">>
EColiPossible == <<"E", " ", "coli", " ", "(", "possible", ")">>

\* C13: clean_org_name moves a 'possible' qualifier that is not in trailing
\* parenthesized form behind the name, the punctuation fixed: both
\* "possible E. Coli" and "possible e coli" give "E coli (possible)"
C13_QualifierRelocation ==
    (pc = "cleaned" /\ text \in {PossibleEDotColi, PossibleEColi}) =>
        cleaned = Return(EColiPossible)

\* C14: the clinic applier on a column whose every cell has a token: one
\* output cell per cell in order; the department is the cell's last
\* white-space delimited token and the location its other tokens joined by
\* single blanks (empty for a single token); the output cell is the
\* location, replaced by the mapping's value when it has one, a blank, and
\* the department, 'Onc.' replaced by 'Oncology' and any other unchanged
C14_ClinicApplier ==
    (pc = "applied" /\ selected_column = "Clinic Name"
        /\ \A i \in 1..Len(data0) : Split(data0[i]) # <<>>) =>
        /\ ~data1.raised
        /\ Len(data1.value) = Len(data0)
        /\ \A i \in 1..Len(data0) :
              LET tokens == Split(data0[i])
                  n == Len(tokens)
                  department == tokens[n]
                  location == IF n = 1 THEN <<>>
                              ELSE Join([j \in 1..(n - 1) |-> tokens[j]], <<" ">>)
              IN  data1.value[i] =
                      (IF location \in DOMAIN mapping THEN mapping[location] ELSE location)
                      \o <<" ">> \o
                      (IF department = <<"Onc", ".">> THEN <<"Oncology">> ELSE department)

\* C14's case: a single-token cell and a cell whose location the mapping
\* replaces
C14_Witness ==
    /\ pc = "applied"
    /\ selected_column = "Clinic Name"
    /\ data0 = << <<"Onc", ".">>, <<" ", "Main", "-", "St", " ", " ", "Clinic", " ", "Onc", ".">> >>
    /\ mapping = (MainHyphenStClinic :> MainStreetClinic)
    /\ data1 = Return(<< <<" ", "Oncology">>,
                         <<"Main", " ", "Street", " ", "Clinic", " ", "Oncology">> >>)

----------------------------------------------------------------------------
(* The batches of the organism pipeline and its cache on a few tables, in  *)
(* src/app.py, where every step starts with an empty cache, and in         *)
(* DataPreprocessor, whose cache lasts as long as the object               *)

BatchColumns ==
    { OrganismSessionColumn,
      << <<"e", " ", "coli", " ", "&", " ", "Escherichia", " ", "coli">>,
         <<"klebsiella", " ", "species", " ", "species", " ", "&", " ", "possible", " ",
           "Klebsiella">>,
         <<"e", " ", "coli", " ", "&", " ", "Klebsiella">> >>,
      << <<"a", " ", "complex", " ", "&", " ", "A", ".", " ", "complex">>,
         Null,
         <<"a", " ", "complex">> >>,
      << <<"(", "possible", ")">>,
         <<"E", " ", "coli", " ", "&", " ", "(", "possible", ")">> >>,
      << <<"E", " ", "coli", " ", "&">> >>,
      << <<"E", " ", "coli">>, <<"possible">> >> }

BatchMappings == {EmptyDict, (EColi :> EscherichiaColi)}

InitBatch ==
    /\ pc = "uploaded"
    /\ IdleClean
    /\ IdleSession
    /\ choices = <<>>
    /\ matches_dict = NotGrouped
    /\ selected_column = "Isolated Organisms"
    /\ data0 \in BatchColumns
    /\ data1 = NotApplied
    /\ mapping \in BatchMappings
    /\ score \in {SessionScore(SessionNames(selected_column, data0), s) : s \in OtherScores}

\* The batch grouping of a selected batch g of the batches groups
BatchGroups(groups, after) ==
    IF groups.raised
    THEN pc' = "IndexError" /\ UNCHANGED <<selected_group, choices, matches_dict>>
    ELSE \E g \in DOMAIN groups.value :
            /\ selected_group' = g
            /\ choices' = groups.value[g]
            /\ matches_dict' = isolated_org_names_matches(groups.value[g], score, mapping)
            /\ pc' = after

\* get_isolated_org_matches from its loop on, and the batch grouping
BatchCollected(collected, after) ==
    /\ self_clean_name_cache' = collected.cache
    /\ BatchGroups(organism_groups(collected), after)
    /\ UNCHANGED <<cleanVars, score, mapping, applyVars, mapping_file, session_state,
                   replace, other, offered_keys, applier_ran>>

\* src/app.py: the operator selects a batch
SelectBatch ==
    /\ pc = "uploaded"
    /\ BatchCollected(CollectEntries(data0, 1, EmptyDict, {}), "batched")

\* DataPreprocessor: the operator selects a batch, at first or again
DPSelectBatch ==
    /\ pc \in {"uploaded", "dp_batched", "dp_applied"}
    /\ BatchCollected(CollectEntries(data0, 1, self_clean_name_cache, {}), "dp_batched")

\* The applier from its loop on
BatchApplied(r, after) ==
    /\ data1' = Outcome(r)
    /\ self_clean_name_cache' = r.cache
    /\ pc' = after
    /\ UNCHANGED <<cleanVars, groupVars, mapping, selected_column, data0, sessVars>>

\* src/app.py: the applier on the column
ApplyBatch ==
    /\ pc = "batched"
    /\ BatchApplied(ReplaceEntries(data0, 1, EmptyDict, <<>>, mapping), "applied")

\* DataPreprocessor: the applier on the column, with the cache of the grouping
DPApplyBatch ==
    /\ pc = "dp_batched"
    /\ BatchApplied(ReplaceEntries(data0, 1, self_clean_name_cache, <<>>, mapping), "dp_applied")

NextBatch == SelectBatch \/ DPSelectBatch \/ ApplyBatch \/ DPApplyBatch

SpecBatch == InitBatch /\ [][NextBatch]_vars

\* A batch has been selected and grouped
Batched == pc \in {"batched", "dp_batched"}

\* The batches groups partition the names: every name is in exactly one
\* batch, the one of its first letter, and a batch holds nothing else; the
\* selected batch is the one handed to the scorer, and every key and every
\* candidate of its clusters is of that batch
PerLetterBatching(groups, names) ==
    /\ \A k \in names : Cardinality({l \in DOMAIN groups : k \in Elems(groups[l])}) = 1
    /\ \A l \in DOMAIN groups :
          \A k \in Elems(groups[l]) : k \in names /\ genus_letter(k) = l
    /\ Elems(choices) = {k \in names : genus_letter(k) = selected_group}
    /\ \A k \in DOMAIN matches_dict.value :
          /\ k \in Elems(choices)
          /\ \A c \in Elems(matches_dict.value[k]) :
                c \in Elems(choices) /\ genus_letter(c) = genus_letter(k)

\* C15: the letter batches partition the unique cleaned names of the column,
\* and every candidate listed for a key is of the key's batch: it has the
\* key's first character, upper-cased
C15_PerLetterBatching ==
    Batched => PerLetterBatching(get_isolated_org_matches(data0).value, NormalizedKeys)

\* C15's case: a column with names under E and under K, the batch K selected,
\* candidates listed for each of its three names
C15_Witness ==
    /\ Batched
    /\ selected_group = "K"
    /\ "E" \in DOMAIN get_isolated_org_matches(data0).value
    /\ Cardinality(DOMAIN matches_dict.value) = 3
    /\ \A k \in DOMAIN matches_dict.value : matches_dict.value[k] # <<>>

\* The applier has run on the column
BatchDone == pc \in {"applied", "dp_applied"}

\* r is what clean_org_name gives for a fragment whose cache entry is v
IsCleaned(r, v) == ~r.raised /\ r.value = v

\* Every entry of the cache is the cleaned name of its fragment
CacheTransparent(cache) == \A f \in DOMAIN cache : IsCleaned(clean_org_name(f), cache[f])

\* The batch and the standardized column are what cleaning every fragment
\* anew gives, names the cleaned names of all fragments
Recomputed(names) ==
    /\ Batched => choices = Sorted({k \in names : genus_letter(k) = selected_group})
    /\ BatchDone =>
          /\ ~data1.raised
          /\ Len(data1.value) = Len(data0)
          /\ \A i \in 1..Len(data0) :
                data1.value[i] =
                    IF data0[i] = Null THEN <<>>
                    ELSE Join([j \in 1..Len(SplitOn(data0[i], "&")) |->
                                  Get(mapping, CleanedFragment(data0[i], j),
                                      CleanedFragment(data0[i], j))],
                              <<" ", "&", " ">>)

\* C16: every entry of the cache of cleaned names is what clean_org_name
\* gives for its fragment, and the selected batch and the standardized
\* column are those that cleaning every fragment anew gives, with a cache
\* that starts empty at every step (src/app.py) and with one that the
\* grouping hands to the applier and to the next grouping (DataPreprocessor)
C16_CacheTransparency ==
    /\ CacheTransparent(self_clean_name_cache)
    /\ (Batched \/ BatchDone) => Recomputed(NormalizedKeys)

\* C16's case: DataPreprocessor's applier has run on a column with the
\* fragment 'e coli' in two entries, its cleaned name taken from the cache
\* that the grouping filled
C16_Witness ==
    /\ pc = "dp_applied"
    /\ mapping = EmptyDict
    /\ Len(data0) = 3
    /\ data0[3] = <<"e", " ", "coli", " ", "&", " ", "Klebsiella">>
    /\ self_clean_name_cache[<<"e", " ", "coli">>] = EColi
    /\ data1.value[3] = <<"E", " ", "coli", " ", "&", " ", "Klebsiella">>

====
